---- MODULE Spec2Model ----
(***************************************************************************)
(* Movement core of the game: Tile (heading, fractional movement tracker,  *)
(* render rectangle and hitbox), the Damsel entity built on it, and the    *)
(* CameraManager that moves every managed sprite against the player's      *)
(* heading.                                                                *)
(*                                                                         *)
(* Headings and trackers are Python floats.  They are kept here in fixed   *)
(* point: the integer n stands for n / Scale, so Scale stands for 1.0.     *)
(* Rectangles are pygame Rects: integer x, y, w, h.                        *)
(***************************************************************************)
EXTENDS Integers, Sequences, FiniteSets, TLC

\* ---------------------------------------------------------------- bounds
\* resolution of the fixed-point floats: 1.0 is Scale units
Scale == 2
\* number of calls made in one behaviour
MaxSteps == 3

\* ------------------------------------------------------------- constants
SPRITE_WIDTH == 16
SPRITE_HEIGHT == 20
\* frames in one animation strip
FRAMES == 3

playerCharacter == "player"
Ids == {"player", "damsel", "tile"}

\* direction.py: the four cardinal deltas
Direction == [up |-> -1, down |-> 1, left |-> -1, right |-> 1]

\* the speeds passed to the calls: negative, zero, one pixel, several pixels
Speeds == {-1, 0, 1, 4}

\* a heading component lies in the range -1 .. 1: the unit headings, with
\* components -1, 0, 1, and some headings with a component of 1/Scale
Units == {-Scale, 0, Scale}
Headings ==
    (Units \X Units) \cup
    {<<1, 0>>, <<0, -1>>, <<1, -Scale>>}

\* the sprite the game drives through the Tile calls; terrain and the player
\* are moved by the camera
Movers == {"damsel"}
\* the values of the entity's self.speed
EntitySpeeds == {1, 4}
\* the groups the level hands to update, as <<enemy_sprites, friendly_sprites>>
GroupArgs == {<<"enemies", "friends">>, <<"friends", "enemies">>}
\* the tiles the level places with set_tile, and where it places them
Placed == {"tile", "damsel"}
Coords == {<<0, 8>>}
\* the sprites whose own logic (AI, input) picks their heading
Deciders == {"damsel", "player"}

\* ----------------------------------------------------------- pygame.Rect
Rect(x, y, w, h) == [x |-> x, y |-> y, w |-> w, h |-> h]

\* C integer division by two (truncates toward zero)
Half(n) == IF n >= 0 THEN n \div 2 ELSE -((-n) \div 2)

\* rect.center (read)
center(r) == <<r.x + Half(r.w), r.y + Half(r.h)>>

\* rect.center = c (write): the size is kept, the origin moves
set_center(r, c) == [r EXCEPT !.x = c[1] - Half(r.w), !.y = c[2] - Half(r.h)]

move_ip(r, dx, dy) == [r EXCEPT !.x = @ + dx, !.y = @ + dy]

inflate(r, dx, dy) == Rect(r.x - Half(dx), r.y - Half(dy), r.w + dx, r.h + dy)

get_rect(size, topleft) == Rect(topleft[1], topleft[2], size[1], size[2])

\* ------------------------------------------------------------ state
VARIABLES
    sprites,   \* Ids -> [rect, hitbox, shared, compass, movementTracker]
    groups,    \* group name -> sequence of member ids, in insertion order
    steps,     \* calls made so far
    last,      \* the call just made: [op, who, speed]
    pre,       \* sprites as they were when that call started
    calls,     \* the shift primitives that call ran, in order: <<who, name>>
    order,     \* the sprites camera_update processed, in order
    entity,    \* the damsel's own attributes: [enemy_sprites, friendly_sprites, frame]
    was,       \* groups and entity as they were when that call started
    did,       \* the steps the last update ran, in order
    dead,      \* the sprites that have died and not been added to a group since
    unit       \* TRUE while every heading picked so far has components -1, 0, 1

vars == <<sprites, groups, steps, last, pre, calls, order,
          entity, was, did, dead, unit>>

\* Tile.__init__: zero heading, zero tracker
Tile(rect, hitbox, shared) ==
    [rect |-> rect, hitbox |-> hitbox, shared |-> shared,
     compass |-> <<0, 0>>,
     movementTracker |-> [vertical |-> 0, horizontal |-> 0]]

\* the hitbox made from the rect as an entity makes it, 10 pixels shorter
set_tile_inflated(t, coords, size) ==
    LET r == get_rect(size, coords)
    IN [t EXCEPT !.rect = r, !.hitbox = inflate(r, 0, -10), !.shared = TRUE]

\* Tile.set_tile: the hitbox is the rect object itself
set_tile(t, coords, size) ==
    LET r == get_rect(size, coords)
    IN [t EXCEPT !.rect = r, !.hitbox = r, !.shared = TRUE]

\* Damsel.__init__: the hitbox is the rect made 10 pixels shorter
Damsel(pos) ==
    LET r == get_rect(<<SPRITE_WIDTH, SPRITE_HEIGHT>>, pos)
    IN Tile(r, inflate(r, 0, -10), FALSE)

\* the player entity: a frame-sized rect and a hitbox narrower and shorter by
\* odd amounts
Player(pos) ==
    LET r == get_rect(<<SPRITE_WIDTH, SPRITE_HEIGHT>>, pos)
    IN Tile(r, inflate(r, -5, -3), FALSE)

\* a terrain tile: constructed, then placed with set_tile
Terrain(coords) ==
    set_tile(Tile(Rect(0, 0, 0, 0), Rect(0, 0, 0, 0), FALSE), coords, <<16, 16>>)

\* ------------------------------------------------------------ Tile
\* The calls work on w = [sprites, calls, order]: the sprites and the log of
\* what has run.

\* the shift without the re-centring line
Shift_unsynced(t, dx, dy) ==
    LET r == move_ip(t.rect, dx, dy)
    IN [t EXCEPT !.rect = r, !.hitbox = IF t.shared THEN r ELSE @]

\* rect.move_ip(dx, dy); hitbox.center = rect.center
Shift(t, dx, dy) ==
    LET r  == move_ip(t.rect, dx, dy)
        hb == IF t.shared THEN r ELSE t.hitbox
        h2 == set_center(hb, center(r))
    IN [t EXCEPT !.rect = IF t.shared THEN h2 ELSE r, !.hitbox = h2]

Logged(w, s, name, t) ==
    [w EXCEPT !.sprites[s] = t, !.calls = Append(@, <<s, name>>)]

\* the shift made with the size of speed, its sign dropped
_move_left_unsigned(w, s, speed) ==
    Logged(w, s, "_move_left",
           Shift(w.sprites[s], -1 * (IF speed < 0 THEN -speed ELSE speed), 0))

_move_left(w, s, speed) ==
    Logged(w, s, "_move_left", Shift(w.sprites[s], -1 * speed, 0))

\* the shift applied twice over
_move_right_doubled(w, s, speed) ==
    Logged(w, s, "_move_right", Shift(w.sprites[s], 2 * speed, 0))

_move_right(w, s, speed) ==
    Logged(w, s, "_move_right", Shift(w.sprites[s], speed, 0))

_move_up(w, s, speed) ==
    Logged(w, s, "_move_up", Shift(w.sprites[s], 0, -1 * speed))

_move_down(w, s, speed) ==
    Logged(w, s, "_move_down", Shift(w.sprites[s], 0, speed))

update_movement_tracker(w, s) ==
    LET t == w.sprites[s]
    IN [w EXCEPT !.sprites[s].movementTracker =
            [horizontal |-> t.movementTracker.horizontal + t.compass[1],
             vertical   |-> t.movementTracker.vertical + t.compass[2]]]

\* the tracker left as it is after a shift
Relax_forgotten(w, s, axis, d) == w

\* movementTracker[axis] += d, d one of the Direction constants
Relax(w, s, axis, d) ==
    [w EXCEPT !.sprites[s].movementTracker[axis] = @ + d * Scale]

move_vertical(w, s, speed) ==
    LET v == w.sprites[s].movementTracker.vertical
    IN IF v <= Direction.up * Scale
       THEN Relax(_move_up(w, s, speed), s, "vertical", Direction.down)
       ELSE IF v >= Direction.down * Scale
       THEN Relax(_move_down(w, s, speed), s, "vertical", Direction.up)
       ELSE w

\* the thresholds tested with < and >, so that a tracker standing on one does
\* not shift
move_horizontal_strict(w, s, speed) ==
    LET h == w.sprites[s].movementTracker.horizontal
    IN IF h < Direction.left * Scale
       THEN Relax(_move_left(w, s, speed), s, "horizontal", Direction.right)
       ELSE IF h > Direction.right * Scale
       THEN Relax(_move_right(w, s, speed), s, "horizontal", Direction.left)
       ELSE w

move_horizontal(w, s, speed) ==
    LET h == w.sprites[s].movementTracker.horizontal
    IN IF h <= Direction.left * Scale
       THEN Relax(_move_left(w, s, speed), s, "horizontal", Direction.right)
       ELSE IF h >= Direction.right * Scale
       THEN Relax(_move_right(w, s, speed), s, "horizontal", Direction.left)
       ELSE w

\* the four tests in one if/elif chain: a vertical shift skips the horizontal
\* test
move_one_chain(w, s, speed) ==
    LET tracked == update_movement_tracker(w, s)
        stepped == move_vertical(tracked, s, speed)
    IN IF stepped # tracked THEN stepped ELSE move_horizontal(tracked, s, speed)

move(w, s, speed) ==
    move_horizontal(move_vertical(update_movement_tracker(w, s), s, speed), s, speed)

set_compass(w, s, x, y) == [w EXCEPT !.sprites[s].compass = <<x, y>>]

\* the heading of one direction with the shift of the other
move_right_shifting_left(w, s, speed) ==
    _move_left(set_compass(w, s, Direction.right * Scale, 0), s, speed)

move_right(w, s, speed) ==
    _move_right(set_compass(w, s, Direction.right * Scale, 0), s, speed)

move_left(w, s, speed) ==
    _move_left(set_compass(w, s, Direction.right * Scale, 0), s, speed)

move_up(w, s, speed) ==
    _move_up(set_compass(w, s, 0, Direction.up * Scale), s, speed)

move_down(w, s, speed) ==
    _move_down(set_compass(w, s, 0, Direction.down * Scale), s, speed)

\* Sprite.kill removes the sprite from the first group it is found in only
die_first_group_only(g, s) ==
    [g EXCEPT !.camera = SelectSeq(@, LAMBDA x : x # s)]

\* Sprite.kill leaves the camera's group as it is
die_obstacles_only(g, s) ==
    [g EXCEPT !.obstacle_sprites = SelectSeq(@, LAMBDA x : x # s)]

\* Tile.die: self.kill() takes the sprite out of every group that holds it
die(g, s) ==
    [n \in DOMAIN g |-> SelectSeq(g[n], LAMBDA x : x # s)]

\* ------------------------------------------------------------ Damsel
\* The calls work on u = [w, entity, did]: the world, the damsel's own
\* attributes and the log of the steps update has run.

\* Entity.animate: the frame counter goes one frame on, round the strip
animate(u) ==
    [u EXCEPT !.entity.frame = (@ + 1) % FRAMES, !.did = Append(@, "animate")]

\* Damsel.collision_handler: returns at once
collision_handler(u, direction) == u

\* the move made twice in one update
update_moving_twice(u, s, enemy_sprites, friendly_sprites, speed) ==
    LET u1 == [u EXCEPT !.entity.enemy_sprites = enemy_sprites,
                        !.entity.friendly_sprites = friendly_sprites,
                        !.did = Append(@, "store")]
        u2 == animate(u1)
    IN [u2 EXCEPT !.w = move(move(u2.w, s, speed), s, speed),
                  !.did = Append(@, "move")]

\* Damsel.update
update(u, s, enemy_sprites, friendly_sprites, speed) ==
    LET u1 == [u EXCEPT !.entity.enemy_sprites = enemy_sprites,
                        !.entity.friendly_sprites = friendly_sprites,
                        !.did = Append(@, "store")]
        u2 == animate(u1)
    IN [u2 EXCEPT !.w = move(u2.w, s, speed), !.did = Append(@, "move")]

\* ------------------------------------------------------------ CameraManager
centery(t) == center(t.rect)[2]

\* sorted(..., key=centery) is stable: x goes after every element whose key
\* is not greater
RECURSIVE InsertByKey(_, _, _)
InsertByKey(x, seq, sp) ==
    IF seq = <<>> THEN <<x>>
    ELSE IF centery(sp[Head(seq)]) <= centery(sp[x])
         THEN <<Head(seq)>> \o InsertByKey(x, Tail(seq), sp)
         ELSE <<x>> \o seq

RECURSIVE sorted(_, _)
sorted(seq, sp) ==
    IF seq = <<>> THEN <<>>
    ELSE InsertByKey(seq[Len(seq)], sorted(SubSeq(seq, 1, Len(seq) - 1), sp), sp)

Negated(v) == <<v[1] * (-1), v[2] * (-1)>>

\* the player's heading taken as it is, not negated
camera_step_following(w, sprite, speed) ==
    LET prevDirection == w.sprites[sprite].compass
        w1 == [w EXCEPT !.sprites[sprite].compass =
                            w.sprites[playerCharacter].compass]
        w2 == move(w1, sprite, speed)
    IN [w2 EXCEPT !.sprites[sprite].compass = prevDirection,
                  !.order = Append(@, sprite)]

\* the saved heading never put back
camera_step_unrestored(w, sprite, speed) ==
    LET w1 == [w EXCEPT !.sprites[sprite].compass =
                            Negated(w.sprites[playerCharacter].compass)]
        w2 == move(w1, sprite, speed)
    IN [w2 EXCEPT !.order = Append(@, sprite)]

\* the sprite moved with its own heading, the player's never written to it
camera_step_own_heading(w, sprite, speed) ==
    LET w2 == move(w, sprite, speed)
    IN [w2 EXCEPT !.order = Append(@, sprite)]

\* one pass of the loop body
camera_step(w, sprite, speed) ==
    LET prevDirection == w.sprites[sprite].compass
        w1 == [w EXCEPT !.sprites[sprite].compass =
                            Negated(w.sprites[playerCharacter].compass)]
        w2 == move(w1, sprite, speed)
    IN [w2 EXCEPT !.sprites[sprite].compass = prevDirection,
                  !.order = Append(@, sprite)]

RECURSIVE camera_loop(_, _, _)
camera_loop(w, todo, speed) ==
    IF todo = <<>> THEN w
    ELSE camera_loop(camera_step(w, Head(todo), speed), Tail(todo), speed)

\* the loop run over the camera's sprites and the player as well
camera_update_with_player(w, members, speed) ==
    camera_loop(w, sorted(members \o <<playerCharacter>>, w.sprites), speed)

\* the loop run over the sprites in the order the group holds them
camera_update_unsorted(w, members, speed) ==
    camera_loop(w, members, speed)

camera_update(w, members, speed) ==
    camera_loop(w, sorted(members, w.sprites), speed)

\* ------------------------------------------------------------ behaviours
Fresh == [sprites |-> sprites, calls |-> <<>>, order |-> <<>>]

Call(op, who, speed, w) ==
    /\ steps < MaxSteps
    /\ steps' = steps + 1
    /\ last' = [op |-> op, who |-> who, speed |-> speed]
    /\ pre' = sprites
    /\ was' = [groups |-> groups, entity |-> entity]
    /\ \E done \in {w} :
          /\ sprites' = done.sprites
          /\ calls' = done.calls
          /\ order' = done.order

\* what a call on the sprites alone leaves as it is
Quiet ==
    /\ UNCHANGED <<groups, entity, dead, unit>>
    /\ did' = <<>>

Init ==
    /\ sprites = [s \in Ids |->
                    IF s = "player" THEN Player(<<16, 16>>)
                    ELSE IF s = "damsel" THEN Damsel(<<0, 0>>)
                    ELSE Terrain(<<32, 1>>)]
    /\ groups = [camera |-> <<"damsel", "tile">>, obstacle_sprites |-> <<"tile">>]
    /\ steps = 0
    /\ last = [op |-> "init", who |-> "none", speed |-> 0]
    /\ pre = sprites
    /\ calls = <<>>
    /\ order = <<>>
    /\ entity = [enemy_sprites |-> "unset", friendly_sprites |-> "unset", frame |-> 0]
    /\ was = [groups |-> groups, entity |-> entity]
    /\ did = <<>>
    /\ dead = {}
    /\ unit = TRUE

Move(s, speed) ==
    /\ Call("move", s, speed, move(Fresh, s, speed))
    /\ Quiet

MoveRight(s, speed) ==
    /\ Call("move_right", s, speed, move_right(Fresh, s, speed))
    /\ Quiet

MoveLeft(s, speed) ==
    /\ Call("move_left", s, speed, move_left(Fresh, s, speed))
    /\ Quiet

MoveUp(s, speed) ==
    /\ Call("move_up", s, speed, move_up(Fresh, s, speed))
    /\ Quiet

MoveDown(s, speed) ==
    /\ Call("move_down", s, speed, move_down(Fresh, s, speed))
    /\ Quiet

ShiftRight(s, speed) ==
    /\ Call("_move_right", s, speed, _move_right(Fresh, s, speed))
    /\ Quiet

ShiftLeft(s, speed) ==
    /\ Call("_move_left", s, speed, _move_left(Fresh, s, speed))
    /\ Quiet

ShiftUp(s, speed) ==
    /\ Call("_move_up", s, speed, _move_up(Fresh, s, speed))
    /\ Quiet

ShiftDown(s, speed) ==
    /\ Call("_move_down", s, speed, _move_down(Fresh, s, speed))
    /\ Quiet

\* the entity's own logic (input, AI) picks a heading
SetCompass(s, h) ==
    /\ sprites[s].compass # h
    /\ Call("set_compass", s, 0, set_compass(Fresh, s, h[1], h[2]))
    /\ unit' = (unit /\ h \in Units \X Units)
    /\ UNCHANGED <<groups, entity, dead>>
    /\ did' = <<>>

\* playerCharacter.speed is read from the player when the camera runs
CameraUpdate(speed) ==
    /\ Call("camera_update", "camera", speed,
            camera_update(Fresh, groups.camera, speed))
    /\ Quiet

\* Group.add: the level puts the player among the camera's sprites
AddPlayer ==
    /\ \A i \in DOMAIN groups.camera : groups.camera[i] # playerCharacter
    /\ Call("add", playerCharacter, 0, Fresh)
    /\ groups' = [groups EXCEPT !.camera = Append(@, playerCharacter)]
    /\ dead' = dead \ {playerCharacter}
    /\ UNCHANGED <<entity, unit>>
    /\ did' = <<>>

\* set_tile(coords, surface) with a 16x16 surface
SetTile(s, coords) ==
    /\ steps < MaxSteps
    /\ steps' = steps + 1
    /\ last' = [op |-> "set_tile", who |-> s, speed |-> 0, coords |-> coords]
    /\ pre' = sprites
    /\ was' = [groups |-> groups, entity |-> entity]
    /\ sprites' = [sprites EXCEPT ![s] = set_tile(@, coords, <<16, 16>>)]
    /\ calls' = <<>>
    /\ order' = <<>>
    /\ Quiet

Handed(u) ==
    /\ steps < MaxSteps
    /\ steps' = steps + 1
    /\ pre' = sprites
    /\ was' = [groups |-> groups, entity |-> entity]
    /\ sprites' = u.w.sprites
    /\ calls' = u.w.calls
    /\ order' = u.w.order
    /\ entity' = u.entity
    /\ did' = u.did
    /\ UNCHANGED <<groups, dead, unit>>

\* the level's per-frame call; speed is the entity's self.speed
Update(s, speed, args) ==
    /\ last' = [op |-> "update", who |-> s, speed |-> speed,
                enemy_sprites |-> args[1], friendly_sprites |-> args[2]]
    /\ Handed(update([w |-> Fresh, entity |-> entity, did |-> <<>>],
                     s, args[1], args[2], speed))

CollisionHandler(s, direction) ==
    /\ last' = [op |-> "collision_handler", who |-> s, speed |-> 0]
    /\ Handed(collision_handler([w |-> Fresh, entity |-> entity, did |-> <<>>],
                                direction))

Die(s) ==
    /\ Call("die", s, 0, Fresh)
    /\ groups' = die(groups, s)
    /\ dead' = dead \cup {s}
    /\ UNCHANGED <<entity, unit>>
    /\ did' = <<>>

Next ==
    \/ \E s \in Movers, speed \in Speeds : Move(s, speed)
    \/ \E s \in Movers, speed \in Speeds : MoveRight(s, speed)
    \/ \E s \in Movers, speed \in Speeds : MoveLeft(s, speed)
    \/ \E s \in Movers, speed \in Speeds : MoveUp(s, speed)
    \/ \E s \in Movers, speed \in Speeds : MoveDown(s, speed)
    \/ \E s \in Movers, speed \in Speeds : ShiftRight(s, speed)
    \/ \E s \in Movers, speed \in Speeds : ShiftLeft(s, speed)
    \/ \E s \in Movers, speed \in Speeds : ShiftUp(s, speed)
    \/ \E s \in Movers, speed \in Speeds : ShiftDown(s, speed)
    \/ \E s \in Deciders, h \in Headings : SetCompass(s, h)
    \/ \E speed \in Speeds : CameraUpdate(speed)
    \/ AddPlayer
    \/ \E s \in Ids : Die(s)
    \/ \E s \in Movers, speed \in EntitySpeeds, args \in GroupArgs :
          Update(s, speed, args)
    \/ \E s \in Movers, direction \in {"horizontal", "vertical"} :
          CollisionHandler(s, direction)
    \/ \E s \in Placed, coords \in Coords : SetTile(s, coords)

Spec == Init /\ [][Next]_vars

\* ------------------------------------------------------------ properties
\* what the last call did to sprite s
Dx(s) == sprites[s].rect.x - pre[s].rect.x
Dy(s) == sprites[s].rect.y - pre[s].rect.y
Abs(n) == IF n < 0 THEN -n ELSE n

\* the tracker of s on an axis once the heading it had when the call started
\* has been added
AdvancedH(s) == pre[s].movementTracker.horizontal + pre[s].compass[1]
AdvancedV(s) == pre[s].movementTracker.vertical + pre[s].compass[2]
Crosses(a) == a <= -Scale \/ a >= Scale

\* the pixels a tracker value a asks for on its axis
ShiftFor(a, speed) ==
    IF a <= -Scale THEN -speed ELSE IF a >= Scale THEN speed ELSE 0

Vertical == {"_move_up", "_move_down"}
Horizontal == {"_move_left", "_move_right"}
Ran(s, names) ==
    Cardinality({i \in DOMAIN calls : calls[i][1] = s /\ calls[i][2] \in names})

Managed == {groups.camera[i] : i \in DOMAIN groups.camera}

\* C1: after every call (move, the directional calls, the shift primitives,
\* camera_update), every sprite that a shift primitive moved during the call
\* has the centre of its hitbox exactly on the centre of its rect, whatever
\* the size of the hitbox and the speed.
C1_CenterSync ==
    \A i \in DOMAIN calls :
        center(sprites[calls[i][1]].hitbox) = center(sprites[calls[i][1]].rect)

\* the camera has shifted the player, whose hitbox is narrower and shorter
\* than its rect by odd amounts and was off centre before the shift
C1_Witness ==
    /\ last.op = "camera_update"
    /\ last.speed = 4
    /\ \E i \in DOMAIN calls : calls[i][1] = playerCharacter
    /\ center(pre[playerCharacter].hitbox) # center(pre[playerCharacter].rect)
    /\ sprites[playerCharacter].hitbox.w # sprites[playerCharacter].rect.w

\* C2 as stated: in a move call with a nonzero heading the rect moves exactly
\* one pixel along an axis whose tracker crosses its threshold, and never
\* more than one pixel per axis.
C2_OnePixelPerCrossing ==
    (last.op = "move" /\ pre[last.who].compass # <<0, 0>>) =>
        /\ Abs(Dx(last.who)) <= 1
        /\ Abs(Dy(last.who)) <= 1
        /\ Crosses(AdvancedH(last.who)) => Abs(Dx(last.who)) = 1
        /\ Crosses(AdvancedV(last.who)) => Abs(Dy(last.who)) = 1

\* C2 amended: in a move call with a nonzero heading the rect moves exactly
\* speed pixels towards the crossed threshold along an axis whose tracker
\* crosses it, and not at all along an axis whose tracker does not: one shift
\* of speed pixels per axis at most.
C2_SpeedPixelsPerCrossing ==
    (last.op = "move" /\ pre[last.who].compass # <<0, 0>>) =>
        /\ Dx(last.who) = ShiftFor(AdvancedH(last.who), last.speed)
        /\ Dy(last.who) = ShiftFor(AdvancedV(last.who), last.speed)

\* a move at speed 4 whose horizontal tracker held a residue, crossed, and
\* moved the rect 4 pixels
C2_Witness ==
    /\ last.op = "move"
    /\ last.speed = 4
    /\ pre[last.who].movementTracker.horizontal > 0
    /\ Crosses(AdvancedH(last.who))
    /\ Dx(last.who) = 4

\* C3: a move call runs at most one vertical and at most one horizontal shift
\* primitive, and when the heading is nonzero on both axes and both trackers
\* cross, it runs one of each.
C3_OneShiftPerAxis ==
    last.op = "move" =>
        /\ Ran(last.who, Vertical) <= 1
        /\ Ran(last.who, Horizontal) <= 1
        /\ (/\ pre[last.who].compass[1] # 0
            /\ pre[last.who].compass[2] # 0
            /\ Crosses(AdvancedH(last.who))
            /\ Crosses(AdvancedV(last.who)))
           => (Ran(last.who, Vertical) = 1 /\ Ran(last.who, Horizontal) = 1)

\* a diagonal move that shifted up and right in one call
C3_Witness ==
    /\ last.op = "move"
    /\ calls = <<<<last.who, "_move_up">>, <<last.who, "_move_right">>>>
    /\ Dx(last.who) = 4
    /\ Dy(last.who) = -4

\* C4: from a tracker at 0 on both axes and a heading with components in
\* -1, 0, 1, one move at a positive speed displaces the rect by speed times
\* the heading on each axis and leaves the tracker at 0 on both axes.
C4_UnitHeadingFromRest ==
    (/\ last.op = "move"
     /\ last.speed > 0
     /\ pre[last.who].movementTracker = [vertical |-> 0, horizontal |-> 0]
     /\ pre[last.who].compass \in Units \X Units) =>
        /\ Dx(last.who) * Scale = last.speed * pre[last.who].compass[1]
        /\ Dy(last.who) * Scale = last.speed * pre[last.who].compass[2]
        /\ sprites[last.who].movementTracker = [vertical |-> 0, horizontal |-> 0]

\* heading (1, 0), speed 4, tracker 0: the rect is 4 pixels to the right and
\* the tracker is back at 0
C4_Witness ==
    /\ last.op = "move"
    /\ last.speed = 4
    /\ pre[last.who].movementTracker = [vertical |-> 0, horizontal |-> 0]
    /\ pre[last.who].compass = <<Scale, 0>>
    /\ sprites[last.who].rect.x = pre[last.who].rect.x + 4
    /\ sprites[last.who].rect.y = pre[last.who].rect.y
    /\ sprites[last.who].movementTracker = [vertical |-> 0, horizontal |-> 0]

Directional == {"move_up", "move_down", "move_left", "move_right"}

\* the unit vector of the direction a directional call names
NamedHeading(op) ==
    CASE op = "move_up"    -> <<0, Direction.up * Scale>>
      [] op = "move_down"  -> <<0, Direction.down * Scale>>
      [] op = "move_left"  -> <<Direction.left * Scale, 0>>
      [] op = "move_right" -> <<Direction.right * Scale, 0>>

\* C5: after move_up, move_down, move_left or move_right the heading is the
\* unit vector of the direction the call names, the other axis 0.
C5_DirectionalHeading ==
    last.op \in Directional => sprites[last.who].compass = NamedHeading(last.op)

\* sprite s as one move(speed) leaves it when its heading is first set to h
AfterHeadingAndMove(s, h, speed) ==
    move(set_compass([sprites |-> pre, calls |-> <<>>, order |-> <<>>],
                     s, h[1], h[2]), s, speed).sprites[s]

SameBoxesAndTracker(a, b) ==
    /\ a.rect = b.rect
    /\ a.hitbox = b.hitbox
    /\ a.movementTracker = b.movementTracker

\* C6 as stated: a directional call leaves the rect, the hitbox and the
\* tracker as setting the heading of its direction and one move(speed) would,
\* from every tracker value.
C6_DirectionalIsMove ==
    last.op \in Directional =>
        SameBoxesAndTracker(sprites[last.who],
            AfterHeadingAndMove(last.who, NamedHeading(last.op), last.speed))

\* the tracker of s, when the call started, on the axis of a directional
\* call, counted positive in the direction of the call
ResidueAlong(s, op) ==
    CASE op = "move_up"    -> pre[s].movementTracker.vertical * Direction.up
      [] op = "move_down"  -> pre[s].movementTracker.vertical * Direction.down
      [] op = "move_left"  -> pre[s].movementTracker.horizontal * Direction.left
      [] op = "move_right" -> pre[s].movementTracker.horizontal * Direction.right

\* C6 amended: the same, from every tracker value that is 0 on the axis of
\* the call or points the way of the call.
C6_DirectionalIsMoveFromRest ==
    (last.op \in Directional /\ ResidueAlong(last.who, last.op) >= 0) =>
        SameBoxesAndTracker(sprites[last.who],
            AfterHeadingAndMove(last.who, NamedHeading(last.op), last.speed))

\* move_left at speed 4 from a residue that points left: the rect is 4 pixels
\* to the left and the residue is still there
C6_Witness ==
    /\ last.op = "move_left"
    /\ last.speed = 4
    /\ pre[last.who].movementTracker.horizontal < 0
    /\ Dx(last.who) = -4
    /\ sprites[last.who].movementTracker = pre[last.who].movementTracker

\* C7: of two directional calls in a row on a sprite the later one alone
\* decides the heading: its axis holds its direction and the other axis is 0.
C7_LastCallWins ==
    [][(/\ last.op \in Directional
        /\ last'.op \in Directional
        /\ last'.who = last.who)
       => sprites'[last'.who].compass = NamedHeading(last'.op)]_vars

\* C8: one camera_update moves the rect of every managed sprite other than
\* the player as one move(S) with heading -H would from the tracker the
\* sprite had: S pixels towards the threshold that tracker plus -H crosses,
\* none on an axis where it crosses none, whatever the sprite's own heading.
C8_CameraInversion ==
    last.op = "camera_update" =>
        \A s \in Managed \ {playerCharacter} :
            LET H == pre[playerCharacter].compass
                t == pre[s].movementTracker
            IN /\ Dx(s) = ShiftFor(t.horizontal + (0 - H[1]), last.speed)
               /\ Dy(s) = ShiftFor(t.vertical + (0 - H[2]), last.speed)
               /\ sprites[s].rect.w = pre[s].rect.w
               /\ sprites[s].rect.h = pre[s].rect.h

\* a camera_update at speed 4 that found a residue on a managed sprite's
\* tracker and moved the sprite against the player's heading
C8_Witness ==
    /\ last.op = "camera_update"
    /\ last.speed = 4
    /\ \E s \in Managed \ {playerCharacter} :
          /\ pre[s].movementTracker.horizontal < 0
          /\ pre[playerCharacter].compass[1] > 0
          /\ Dx(s) = -4

\* C9: after camera_update every managed sprite has the heading it had
\* before the call.
C9_HeadingRestored ==
    last.op = "camera_update" =>
        \A s \in Managed : sprites[s].compass = pre[s].compass

\* a camera_update that moved a managed sprite whose own heading is neither
\* zero nor the negated player heading, the player heading being nonzero
C9_Witness ==
    /\ last.op = "camera_update"
    /\ \E s \in Managed :
          /\ pre[s].compass # <<0, 0>>
          /\ pre[playerCharacter].compass # <<0, 0>>
          /\ pre[s].compass # Negated(pre[playerCharacter].compass)
          /\ \E i \in DOMAIN calls : calls[i][1] = s
          /\ sprites[s].compass = pre[s].compass

\* C10 as stated: camera_update leaves the player's heading and rect as they
\* were, whatever sprites the camera holds.
C10_PlayerUntouched ==
    last.op = "camera_update" =>
        /\ sprites[playerCharacter].compass = pre[playerCharacter].compass
        /\ sprites[playerCharacter].rect = pre[playerCharacter].rect

\* C10 amended: camera_update leaves the player's heading as it was whatever
\* sprites the camera holds, and leaves the player's rect, hitbox and tracker
\* as they were when the player is not one of the camera's sprites.
C10_PlayerOutsideCamera ==
    last.op = "camera_update" =>
        /\ sprites[playerCharacter].compass = pre[playerCharacter].compass
        /\ playerCharacter \notin Managed =>
               sprites[playerCharacter] = pre[playerCharacter]

\* a camera_update that shifted the camera's sprites while the player, with
\* a nonzero heading, was not among them
C10_Witness ==
    /\ last.op = "camera_update"
    /\ playerCharacter \notin Managed
    /\ pre[playerCharacter].compass # <<0, 0>>
    /\ Len(calls) = Len(groups.camera)
    /\ sprites[playerCharacter] = pre[playerCharacter]

MemberOf(g, s) == \E n \in DOMAIN g : \E i \in DOMAIN g[n] : g[n][i] = s

\* C11: after die() the sprite is in none of the groups, and a die() on a
\* sprite that is in no group changes nothing: the groups, the rects, the
\* headings and the trackers are as they were.
C11_DieIdempotent ==
    last.op = "die" =>
        /\ ~MemberOf(groups, last.who)
        /\ sprites = pre
        /\ ~MemberOf(was.groups, last.who) => groups = was.groups

\* the tile, which was in two groups, has died a second time
C11_Witness ==
    /\ last.op = "die"
    /\ last.who = "tile"
    /\ ~MemberOf(was.groups, "tile")
    /\ "tile" \in dead
    /\ groups = [camera |-> <<"damsel">>, obstacle_sprites |-> <<>>]

\* C12: one camera_update() processes every managed sprite exactly once, one
\* after another, in non-decreasing order of the vertical centre each sprite
\* had when the call started, whatever order the group holds them in.
C12_ProcessedInCenterOrder ==
    last.op = "camera_update" =>
        /\ Len(order) = Cardinality(Managed)
        /\ \A s \in Managed : \E i \in DOMAIN order : order[i] = s
        /\ \A i, j \in DOMAIN order :
              i < j => centery(pre[order[i]]) <= centery(pre[order[j]])

\* three managed sprites, moved by the call in an order that is not the one
\* the group holds them in
C12_Witness ==
    /\ last.op = "camera_update"
    /\ Len(order) = 3
    /\ order # groups.camera
    /\ \A s \in Managed : sprites[s].rect # pre[s].rect

\* C13: right after set_tile(coords, surface) the rect's top-left is coords,
\* and from then on, through every later shift, move and camera pass, the
\* hitbox of that tile is equal to its rect in position and size.
C13_PlacedHitboxIsRect ==
    /\ \A s \in Ids : sprites[s].shared => sprites[s].hitbox = sprites[s].rect
    /\ last.op = "set_tile" =>
          /\ sprites[last.who].rect.x = last.coords[1]
          /\ sprites[last.who].rect.y = last.coords[2]
          /\ sprites[last.who].shared

\* a sprite placed with set_tile, then shifted through move
C13_Witness ==
    /\ last.op = "move"
    /\ sprites[last.who].shared
    /\ sprites[last.who].rect # pre[last.who].rect
    /\ \A coords \in Coords : pre[last.who].rect # get_rect(<<16, 16>>, coords)

Primitives == Vertical \cup Horizontal
Api == {"move"} \cup Directional \cup Primitives

\* the pixel direction a directional call or a _move_* primitive names
NamedDirection(op) ==
    CASE op \in {"move_up", "_move_up"}       -> <<0, Direction.up>>
      [] op \in {"move_down", "_move_down"}   -> <<0, Direction.down>>
      [] op \in {"move_left", "_move_left"}   -> <<Direction.left, 0>>
      [] op \in {"move_right", "_move_right"} -> <<Direction.right, 0>>

\* the direction move() steps in on each axis: that of the threshold crossed
CrossedDirection(s) ==
    <<ShiftFor(AdvancedH(s), 1), ShiftFor(AdvancedV(s), 1)>>

\* the call op made on s with the given speed, from the state before the call
ApiCall(op, s, speed) ==
    LET w == [sprites |-> pre, calls |-> <<>>, order |-> <<>>]
    IN CASE op = "move"        -> move(w, s, speed)
         [] op = "move_up"     -> move_up(w, s, speed)
         [] op = "move_down"   -> move_down(w, s, speed)
         [] op = "move_left"   -> move_left(w, s, speed)
         [] op = "move_right"  -> move_right(w, s, speed)
         [] op = "_move_up"    -> _move_up(w, s, speed)
         [] op = "_move_down"  -> _move_down(w, s, speed)
         [] op = "_move_left"  -> _move_left(w, s, speed)
         [] op = "_move_right" -> _move_right(w, s, speed)

\* C14: a movement call with speed 0 leaves the rect and the hitbox where they
\* were; with a negative speed it displaces the rect by |speed| pixels against
\* the direction it names (for move: against the threshold crossed); and for
\* every speed the heading and the tracker come out as they do for speed 1.
C14_NonPositiveSpeed ==
    last.op \in Api =>
        LET s == last.who
            d == IF last.op = "move" THEN CrossedDirection(s)
                 ELSE NamedDirection(last.op)
            positive == ApiCall(last.op, s, 1).sprites[s]
        IN /\ last.speed = 0 =>
                 /\ sprites[s].rect = pre[s].rect
                 /\ sprites[s].hitbox = pre[s].hitbox
           /\ last.speed < 0 =>
                 /\ Dx(s) = -1 * d[1] * Abs(last.speed)
                 /\ Dy(s) = -1 * d[2] * Abs(last.speed)
           /\ sprites[s].compass = positive.compass
           /\ sprites[s].movementTracker = positive.movementTracker

\* move_left(-1) has moved the rect one pixel to the right
C14_Witness ==
    /\ last.op = "move_left"
    /\ last.speed = -1
    /\ Dx(last.who) = 1
    /\ sprites[last.who].hitbox.x = pre[last.who].hitbox.x + 1

Processed == {order[i] : i \in DOMAIN order}

\* C15: a camera_update() made after a sprite has died does not process that
\* sprite and leaves its rect, hitbox, heading and tracker as they were, while
\* every sprite still in the camera's group is processed and shifted against
\* the player's heading.
C15_DeadNotScrolled ==
    last.op = "camera_update" =>
        /\ \A s \in dead : s \notin Processed /\ sprites[s] = pre[s]
        /\ \A s \in Managed :
              /\ s \in Processed
              /\ Dx(s) = ShiftFor(pre[s].movementTracker.horizontal
                                    - pre[playerCharacter].compass[1], last.speed)
              /\ Dy(s) = ShiftFor(pre[s].movementTracker.vertical
                                    - pre[playerCharacter].compass[2], last.speed)

\* the damsel has died, and the camera pass made afterwards has moved the tile
\* and not the damsel
C15_Witness ==
    /\ last.op = "camera_update"
    /\ "damsel" \in dead
    /\ "tile" \in Processed
    /\ sprites["tile"].rect # pre["tile"].rect
    /\ sprites["damsel"] = pre["damsel"]

RelaxedOnce(a) ==
    IF a <= -Scale THEN a + Scale ELSE IF a >= Scale THEN a - Scale ELSE a

\* C16: update(enemy_sprites, friendly_sprites) stores the two groups, then
\* animates, then makes exactly one move(self.speed) step with the heading
\* the entity had, which update leaves as it was; collision_handler changes
\* nothing.
C16_UpdateStoresAnimatesMoves ==
    /\ last.op = "update" =>
          LET s == last.who
          IN /\ entity.enemy_sprites = last.enemy_sprites
             /\ entity.friendly_sprites = last.friendly_sprites
             /\ entity.frame = (was.entity.frame + 1) % FRAMES
             /\ did = <<"store", "animate", "move">>
             /\ sprites[s].compass = pre[s].compass
             /\ Dx(s) = ShiftFor(AdvancedH(s), last.speed)
             /\ Dy(s) = ShiftFor(AdvancedV(s), last.speed)
             /\ sprites[s].movementTracker.horizontal = RelaxedOnce(AdvancedH(s))
             /\ sprites[s].movementTracker.vertical = RelaxedOnce(AdvancedV(s))
             /\ Ran(s, Horizontal) <= 1
             /\ Ran(s, Vertical) <= 1
             /\ \A o \in Ids \ {s} : sprites[o] = pre[o]
    /\ last.op = "collision_handler" =>
          /\ sprites = pre
          /\ entity = was.entity
          /\ groups = was.groups
          /\ calls = <<>>

\* an update that found other groups stored, and whose move shifted the damsel
\* on both axes
C16_Witness ==
    /\ last.op = "update"
    /\ was.entity.enemy_sprites = last.friendly_sprites
    /\ entity.enemy_sprites = last.enemy_sprites
    /\ Dx(last.who) # 0
    /\ Dy(last.who) # 0
    /\ did = <<"store", "animate", "move">>

AtRest(s) ==
    /\ sprites[s].movementTracker.horizontal = 0
    /\ sprites[s].movementTracker.vertical = 0

\* C17: as long as every heading picked, for a sprite or for the player, has
\* components -1, 0 or 1, the tracker of every sprite is 0 on both axes after
\* every call, whatever mix of move, update, directional calls and camera
\* passes has run.
C17_TrackerZeroBetweenCalls ==
    unit => \A s \in Ids : AtRest(s)

\* a camera pass has shifted the damsel after the damsel had moved itself
C17_Witness ==
    /\ unit
    /\ last.op = "camera_update"
    /\ ~sprites["damsel"].shared
    /\ pre["damsel"].rect # Damsel(<<0, 0>>).rect
    /\ sprites["damsel"].rect # pre["damsel"].rect
    /\ AtRest("damsel")

\* C18: with every heading picked so far having components -1, 0 or 1, one
\* camera_update() displaces all managed sprites other than the player by the
\* same vector, so the differences between their positions are kept.
C18_RigidScroll ==
    (unit /\ last.op = "camera_update") =>
        \A a, b \in Managed \ {playerCharacter} :
            /\ Dx(a) = Dx(b)
            /\ Dy(a) = Dy(b)

\* the damsel, with a heading of its own, and the tile, with none, have been
\* shifted by one camera pass
C18_Witness ==
    /\ unit
    /\ last.op = "camera_update"
    /\ {"damsel", "tile"} \subseteq Managed
    /\ pre["damsel"].compass # pre["tile"].compass
    /\ Dx("tile") # 0 \/ Dy("tile") # 0
    /\ Dx("damsel") = Dx("tile")
    /\ Dy("damsel") = Dy("tile")

====
